---- MODULE Spec2Model ----
(***************************************************************************)
(* The concurrent dispatch harness of cc2p (src/main.rs, fn main).         *)
(*                                                                         *)
(* main builds a multi-thread tokio runtime with `worker` worker threads,  *)
(* spawns one task per discovered file, awaits every JoinHandle, finishes  *)
(* the progress bar and prints the collected errors.  The body of a task   *)
(* contains no .await: once a worker thread polls it, the task runs        *)
(* convert_to_parquet, the error push and the progress increment on that   *)
(* worker thread to the end.  block_on drives main's future on the main    *)
(* thread, which is not one of the worker threads.                         *)
(*                                                                         *)
(* Paths come from find_files(&str); a path is a record of its directory,  *)
(* stem and extension, and find_files returns distinct paths.              *)
(*                                                                         *)
(* Specifications:                                                         *)
(*   Spec      the dispatch (from line 114) of the runs in which no task   *)
(*             body panics: every call of convert_to_parquet returns Ok or *)
(*             Err, and every path is valid UTF-8 (it was matched from a   *)
(*             &str pattern), so file.to_str().unwrap() succeeds and no    *)
(*             mutex is poisoned, which makes each lock().unwrap() a plain *)
(*             blocking acquire;                                           *)
(*   LiveSpec  Spec under fair scheduling;                                 *)
(*   FullSpec  main from its first line, with the errors returned before   *)
(*             the dispatch;                                               *)
(*   DelimSpec parse_delimiter on every short string;                      *)
(*   PanicSpec the dispatch when one task body panics;                     *)
(*   OutSpec   the dispatch with an output directory and paths that share  *)
(*             a file name;                                                *)
(*   PipeSpec  one call of convert_to_parquet.                             *)
(***************************************************************************)
EXTENDS Integers, Sequences, FiniteSets, TLC

\* ---- bounds of the model -------------------------------------------------
MaxFiles == 3      \* files found by find_files: 0..MaxFiles
MaxWorker == 2     \* args.worker: 1..MaxWorker
MaxDelimLen == 2   \* characters of args.delimiter: 0..MaxDelimLen
MaxOutFiles == 2   \* files of a run with an output directory: 0..MaxOutFiles
MaxRows == 3       \* data rows of a file: 0..MaxRows
MaxSample == 2     \* args.sampling: 1..MaxSample
MaxGroup == 2      \* rows of a row group: 1..MaxGroup

\* ---- values --------------------------------------------------------------
\* Identity of the main thread as a lock holder (tasks are 1..K).
MainThread == 0

\* Outcomes of convert_to_parquet: Ok(()) or Err(e), e rendered by to_string().
ConvertErrors == {"IoError", "TypeCoercionError"}
ConvertResults == {"Ok"} \cup ConvertErrors

VARIABLES
    files,       \* Vec<PathBuf> returned by find_files (line 98)
    worker,      \* args.worker (line 110)
    result,      \* what convert_to_parquet returns for each file (line 131)
    pending,     \* the part of `files` the for loop has not yet consumed (line 117)
    handles,     \* Vec<JoinHandle> still to be awaited (lines 115, 141, 144)
    mainpc,      \* position of main
    taskpc,      \* position of each spawned task's body (lines 130-139)
    running,     \* the tasks the worker threads are polling, one per busy thread
    errors,      \* Mutex<Vec<ErrorData>> contents (line 97)
    errorsLock,  \* holder of the errors mutex: {} when free
    bar,         \* ProgressBar: pos, len, finished (lines 100-107)
    barLock,     \* holder of the bar mutex: {} when free
    stdout,      \* error lines printed by the report loop (lines 152-157)
    log,         \* per task: the steps of its body it has executed, in order
    arg,         \* args.delimiter, a string as its sequence of characters (line 24)
    delimiter,   \* the Result of parse_delimiter (line 79)
    output_dir,  \* args.output_dir, an Option: {} or {dir} (lines 40, 85)
    output_file, \* per task: the Option<PathBuf> of lines 121-128
    panics,      \* per task: the point of its body at which it panics, if any
    poisoned,    \* the mutexes poisoned by a panic of their holder
    ret,         \* what main has returned: "none" while it runs (lines 71, 162)
    pipe         \* the state of one call of convert_to_parquet

\* The command line and the environment, which main only reads.
cfgVars == <<arg, output_dir, panics>>

\* What the dispatch of a run without panics leaves alone.
rest == <<cfgVars, delimiter, poisoned, pipe>>

vars == <<files, worker, result, pending, handles, mainpc, taskpc, running,
          errors, errorsLock, bar, barLock, stdout, log, output_file, ret, rest>>

Tasks == 1..Len(files)

\* A path: its directory, and its file name as stem and extension.
Path(dir, stem, ext) == [dir |-> dir, stem |-> stem, ext |-> ext]

\* The paths of a run whose discovery found k files of one directory.
Discovered(k) == [i \in 1..k |-> Path("in", i, "csv")]

\* Result<char, String>: Ok(c) and Err(msg), a message being a sequence of
\* pieces of text.
Ok(c) == [ok |-> TRUE, ch |-> c, msg |-> <<>>]
Err(msg) == [ok |-> FALSE, ch |-> "", msg |-> msg]

\* The delimiter before line 79 has run.
NotParsed == Err(<<>>)

\* The state of convert_to_parquet when no call is being followed.
PipeIdle == [pc |-> "idle"]

\* ErrorData { file_path: file.to_str().unwrap().to_string(), error: err.to_string() }
ErrorData(f) == [file_path |-> files[f], error |-> result[f]]

Failed == {f \in Tasks : result[f] # "Ok"}

Init ==
    /\ \E k \in 0..MaxFiles : files = Discovered(k)
    /\ worker \in 1..MaxWorker
    /\ result \in [1..Len(files) -> ConvertResults]
    /\ pending = files
    /\ handles = <<>>
    /\ mainpc = "spawn_loop"
    /\ taskpc = [f \in 1..Len(files) |-> "unspawned"]
    /\ running = {}
    /\ errors = <<>>
    /\ errorsLock = {}
    /\ bar = [pos |-> 0, len |-> Len(files), finished |-> FALSE]
    /\ barLock = {}
    /\ stdout = <<>>
    /\ log = [f \in 1..Len(files) |-> <<>>]
    /\ arg = <<",">>
    /\ delimiter = Ok(",")
    /\ output_dir = {}
    /\ output_file = [f \in 1..Len(files) |-> {}]
    /\ panics = [f \in 1..Len(files) |-> "none"]
    /\ poisoned = {}
    /\ ret = "none"
    /\ pipe = PipeIdle

\* ---- main: before the dispatch (lines 72-112) ----------------------------
\* Mutant: a string of several characters is cut to its first character.
parse_delimiter_FirstChar(s) ==
    CASE s = <<"\\", "t">> -> Ok("\t")
      [] s = <<"\\", "n">> -> Ok("\n")
      [] s = <<"\\", "r">> -> Ok("\r")
      [] s = <<"\\", ",">> -> Ok(",")
      [] s = <<"\\", ";">> -> Ok(";")
      [] OTHER ->
           IF Len(s) >= 1 THEN Ok(s[1])
           ELSE Err(<<"Delimiter cannot be empty">>)

\* fn parse_delimiter(s: &str) -> Result<char, String>  (lines 48-69)
parse_delimiter(s) ==
    CASE s = <<"\\", "t">> -> Ok("\t")
      [] s = <<"\\", "n">> -> Ok("\n")
      [] s = <<"\\", "r">> -> Ok("\r")
      [] s = <<"\\", ",">> -> Ok(",")
      [] s = <<"\\", ";">> -> Ok(";")
      [] OTHER ->
           IF Len(s) >= 1                      \* chars.next() is Some(c)
           THEN IF Len(s) = 1                  \* chars.next().is_none()
                THEN Ok(s[1])
                ELSE Err(<<"Invalid delimiter: ">> \o s)
           ELSE Err(<<"Delimiter cannot be empty">>)

\* let delimiter = parse_delimiter(..).map_err(..)?;  (lines 79-80)
ParseDelimiter ==
    /\ mainpc = "parse_delimiter"
    /\ delimiter' = parse_delimiter(arg)
    /\ IF delimiter'.ok
       THEN mainpc' = "find_files" /\ ret' = ret
       ELSE mainpc' = "done" /\ ret' = "Err"
    /\ UNCHANGED <<cfgVars, poisoned, pipe, output_file, files, worker, result,
                   pending, handles, taskpc, running, errors, errorsLock, bar,
                   barLock, stdout, log>>

\* errors is created empty (line 97); find_files(path)? returns Ok(files) and
\* the bar is created with the number of files as its length (lines 98-107).
\* What convert_to_parquet will return for each file is fixed by the files.
FindFiles ==
    /\ mainpc = "find_files"
    /\ \E k \in 0..MaxFiles :
         /\ files' = Discovered(k)
         /\ result' \in [1..k -> ConvertResults]
         /\ taskpc' = [f \in 1..k |-> "unspawned"]
         /\ log' = [f \in 1..k |-> <<>>]
         /\ output_file' = [f \in 1..k |-> {}]
         /\ panics' = [f \in 1..k |-> "none"]
         /\ bar' = [pos |-> 0, len |-> k, finished |-> FALSE]
    /\ pending' = files'
    /\ errors' = <<>>
    /\ mainpc' = "build_runtime"
    /\ UNCHANGED <<arg, output_dir, delimiter, poisoned, pipe, ret, worker,
                   handles, running, errorsLock, barLock, stdout>>

\* find_files(path)? returns Err: main returns it (line 98).
FindFilesErr ==
    /\ mainpc = "find_files"
    /\ errors' = <<>>
    /\ mainpc' = "done"
    /\ ret' = "Err"
    /\ UNCHANGED <<rest, output_file, files, worker, result, pending, handles,
                   taskpc, running, errorsLock, bar, barLock, stdout, log>>

\* runtime::Builder::..build()? (lines 109-112), then block_on (line 114)
BuildRuntime ==
    /\ mainpc = "build_runtime"
    /\ mainpc' = "spawn_loop"
    /\ UNCHANGED <<rest, output_file, ret, files, worker, result, pending,
                   handles, taskpc, running, errors, errorsLock, bar, barLock,
                   stdout, log>>

\* build()? returns Err: main returns it (line 112).
BuildRuntimeErr ==
    /\ mainpc = "build_runtime"
    /\ mainpc' = "done"
    /\ ret' = "Err"
    /\ UNCHANGED <<rest, output_file, files, worker, result, pending, handles,
                   taskpc, running, errors, errorsLock, bar, barLock, stdout,
                   log>>

\* ---- main: the spawn loop (lines 117-142) --------------------------------
\* file.file_name()
file_name(p) == [stem |-> p.stem, ext |-> p.ext]

\* PathBuf::push of a file name onto a directory
push(dir, name) == [dir |-> dir, stem |-> name.stem, ext |-> name.ext]

\* PathBuf::set_extension
set_extension(p, e) == [p EXCEPT !.ext = e]

\* let output_file = if let Some(output_dir) = output_dir {..} else { None }
OutputFile(file) ==
    {set_extension(push(d, file_name(file)), "parquet") : d \in output_dir}

Spawn ==
    /\ mainpc = "spawn_loop"
    /\ pending # <<>>
    /\ LET file == Head(pending)
           f == Len(handles) + 1     \* the task of this file
       IN
         /\ output_file' = [output_file EXCEPT ![f] = OutputFile(file)]
         /\ taskpc' = [taskpc EXCEPT ![f] = "spawned"]
         /\ handles' = Append(handles, f)
    /\ pending' = Tail(pending)
    /\ UNCHANGED <<rest, ret, files, worker, result, mainpc, running, errors,
                   errorsLock, bar, barLock, stdout, log>>

\* Mutant: a run that spawned nothing is reported as an error.
SpawnLoopExit_EmptyIsError ==
    /\ mainpc = "spawn_loop"
    /\ pending = <<>>
    /\ IF handles = <<>>
       THEN mainpc' = "done" /\ ret' = "Err"
       ELSE mainpc' = "await_loop" /\ ret' = ret
    /\ UNCHANGED <<rest, output_file, files, worker, result, pending, handles,
                   taskpc, running, errors, errorsLock, bar, barLock, stdout,
                   log>>

SpawnLoopExit ==
    /\ mainpc = "spawn_loop"
    /\ pending = <<>>
    /\ mainpc' = "await_loop"
    /\ UNCHANGED <<rest, output_file, ret, files, worker, result, pending,
                   handles, taskpc, running, errors, errorsLock, bar,
                   barLock, stdout, log>>

\* ---- worker threads of the runtime (lines 109-112) -----------------------
\* The runtime has `worker` interchangeable worker threads; a thread polls one
\* task at a time, so a spawned task is picked up only while fewer than
\* `worker` tasks are being polled.

\* Mutant: a pool without a bound, every spawned task gets a thread at once.
WorkerIdle_Unbounded == TRUE

WorkerIdle == Cardinality(running) < worker

Poll(f) ==
    /\ WorkerIdle
    /\ taskpc[f] = "spawned"
    /\ running' = running \cup {f}
    /\ taskpc' = [taskpc EXCEPT ![f] = "convert"]
    /\ UNCHANGED <<rest, output_file, ret, files, worker, result, pending,
                   handles, mainpc, errors, errorsLock, bar, barLock, stdout,
                   log>>

\* ---- the task body (lines 130-139) ---------------------------------------
\* Mutant: the error branch is not taken, the body goes on to line 138.
AfterConvert_SkipPush(f) == "lock_bar"

\* if let Err(err) = convert_to_parquet(..) { .. }  (line 131)
AfterConvert(f) == IF result[f] = "Ok" THEN "lock_bar" ELSE "lock_errors"

ConvertReturn(f) ==
    /\ taskpc[f] = "convert"
    /\ panics[f] # "convert"
    /\ taskpc' = [taskpc EXCEPT ![f] = AfterConvert(f)]
    /\ log' = [log EXCEPT ![f] = Append(@, "convert")]
    /\ UNCHANGED <<rest, output_file, ret, files, worker, result, pending,
                   handles, mainpc, running, errors, errorsLock, bar,
                   barLock, stdout>>

\* Mutex::lock blocks until the mutex is free.
\* Mutant: a lock that never blocks.
CanLock_NoExclusion(lock) == TRUE

CanLock(lock) == lock = {}

\* errors_clone.lock().unwrap()  (line 132)
TaskLockErrors(f) ==
    /\ taskpc[f] = "lock_errors"
    /\ CanLock(errorsLock)
    /\ "errors" \notin poisoned
    /\ errorsLock' = {f}
    /\ taskpc' = [taskpc EXCEPT ![f] = "push"]
    /\ UNCHANGED <<rest, output_file, ret, files, worker, result, pending,
                   handles, mainpc, running, errors, bar, barLock, stdout,
                   log>>

\* errors.push(ErrorData {..})  (lines 133-136)
\* Mutant: the record is pushed twice.
PushError_Twice(list, f) == Append(Append(list, ErrorData(f)), ErrorData(f))

\* Mutant: the record is inserted at the front of the list.
PushError_Front(list, f) == <<ErrorData(f)>> \o list

\* Mutant: the list is replaced by the new record (last writer wins).
PushError_Overwrite(list, f) == <<ErrorData(f)>>

PushError(list, f) == Append(list, ErrorData(f))

\* Mutant: the worker thread stays bound to the task after its body ended.
Release_Leak(run, f) == run

\* The worker thread that polled the task is free again when the body ends.
Release(run, f) == run \ {f}

\* Mutant: the error branch ends the body (an early return), skipping line 138.
Push_EarlyReturn(f) ==
    /\ taskpc[f] = "push"
    /\ errors' = PushError(errors, f)
    /\ errorsLock' = errorsLock \ {f}
    /\ taskpc' = [taskpc EXCEPT ![f] = "done"]
    /\ running' = Release(running, f)
    /\ log' = [log EXCEPT ![f] = Append(@, "push")]
    /\ UNCHANGED <<rest, output_file, ret, files, worker, result, pending,
                   handles, mainpc, bar, barLock, stdout>>

\* Mutant: the guard outlives the if block, the errors lock stays held.
Push_KeepGuard(f) ==
    /\ taskpc[f] = "push"
    /\ errors' = PushError(errors, f)
    /\ taskpc' = [taskpc EXCEPT ![f] = "lock_bar"]
    /\ log' = [log EXCEPT ![f] = Append(@, "push")]
    /\ UNCHANGED <<rest, output_file, ret, files, worker, result, pending,
                   handles, mainpc, running, errorsLock, bar, barLock, stdout>>

\* The push, then the guard is dropped at the end of the if block (line 137).
Push(f) ==
    /\ taskpc[f] = "push"
    /\ panics[f] # "push"
    /\ errors' = PushError(errors, f)
    /\ errorsLock' = errorsLock \ {f}
    /\ taskpc' = [taskpc EXCEPT ![f] = "lock_bar"]
    /\ log' = [log EXCEPT ![f] = Append(@, "push")]
    /\ UNCHANGED <<rest, output_file, ret, files, worker, result, pending,
                   handles, mainpc, running, bar, barLock, stdout>>

\* bar.lock().unwrap()  (line 138)
TaskLockBar(f) ==
    /\ taskpc[f] = "lock_bar"
    /\ CanLock(barLock)
    /\ "bar" \notin poisoned
    /\ barLock' = {f}
    /\ taskpc' = [taskpc EXCEPT ![f] = "inc"]
    /\ UNCHANGED <<rest, output_file, ret, files, worker, result, pending,
                   handles, mainpc, running, errors, errorsLock, bar, stdout,
                   log>>

\* Mutant: the position is set to 1 instead of being advanced by 1.
BarInc_Set(b) == [b EXCEPT !.pos = 1]

\* Mutant: the position is advanced by 2.
BarInc_Two(b) == [b EXCEPT !.pos = @ + 2]

\* ProgressBar::inc(1)
BarInc(b) == [b EXCEPT !.pos = @ + 1]

\* .inc(1); the temporary guard is dropped and the body ends (lines 138-139).
Inc(f) ==
    /\ taskpc[f] = "inc"
    /\ bar' = BarInc(bar)
    /\ barLock' = barLock \ {f}
    /\ taskpc' = [taskpc EXCEPT ![f] = "done"]
    /\ running' = Release(running, f)
    /\ log' = [log EXCEPT ![f] = Append(@, "inc")]
    /\ UNCHANGED <<rest, output_file, ret, files, worker, result, pending,
                   handles, mainpc, errors, errorsLock, stdout>>

\* ---- main: wait for all tasks (lines 144-146) ----------------------------
\* Mutant: the handle is dropped instead of awaited.
JoinReady_NoWait(f) == TRUE

\* handle.await is ready when the task behind the handle has ended, with
\* Ok(()) or, after a panic, with a JoinError; `let _ =` drops either.
JoinReady(f) == taskpc[f] \in {"done", "panicked"}

Await ==
    /\ mainpc = "await_loop"
    /\ handles # <<>>
    /\ JoinReady(Head(handles))
    /\ handles' = Tail(handles)
    /\ UNCHANGED <<rest, output_file, ret, files, worker, result, pending,
                   mainpc, taskpc, running, errors, errorsLock, bar, barLock,
                   stdout, log>>

AwaitLoopExit ==
    /\ mainpc = "await_loop"
    /\ handles = <<>>
    /\ mainpc' = "lock_bar"
    /\ UNCHANGED <<rest, output_file, ret, files, worker, result, pending,
                   handles, taskpc, running, errors, errorsLock, bar,
                   barLock, stdout, log>>

\* ---- main: finish the bar and report (lines 149-162) ---------------------
\* bar.lock().unwrap()  (line 149)
MainLockBar ==
    /\ mainpc = "lock_bar"
    /\ CanLock(barLock)
    /\ "bar" \notin poisoned
    /\ barLock' = {MainThread}
    /\ mainpc' = "finish"
    /\ UNCHANGED <<rest, output_file, ret, files, worker, result, pending,
                   handles, taskpc, running, errors, errorsLock, bar, stdout,
                   log>>

\* .finish(); the temporary guard is dropped (line 149)
MainFinish ==
    /\ mainpc = "finish"
    /\ bar' = [bar EXCEPT !.finished = TRUE]
    /\ barLock' = barLock \ {MainThread}
    /\ mainpc' = "lock_errors"
    /\ UNCHANGED <<rest, output_file, ret, files, worker, result, pending,
                   handles, taskpc, running, errors, errorsLock, stdout,
                   log>>

\* let errors = errors.lock().unwrap();  (line 151)
MainLockErrors ==
    /\ mainpc = "lock_errors"
    /\ CanLock(errorsLock)
    /\ "errors" \notin poisoned
    /\ errorsLock' = {MainThread}
    /\ mainpc' = "report"
    /\ UNCHANGED <<rest, output_file, ret, files, worker, result, pending,
                   handles, taskpc, running, errors, bar, barLock, stdout,
                   log>>

\* for err_data in &*errors { println!(..) }  (lines 152-157)
Report ==
    /\ mainpc = "report"
    /\ Len(stdout) < Len(errors)
    /\ stdout' = Append(stdout, errors[Len(stdout) + 1])
    /\ UNCHANGED <<rest, output_file, ret, files, worker, result, pending,
                   handles, mainpc, taskpc, running, errors, errorsLock, bar,
                   barLock, log>>

\* Mutant: main returns an error when some conversion failed.
Return_ErrOnFailures ==
    /\ mainpc = "report"
    /\ Len(stdout) = Len(errors)
    /\ errorsLock' = errorsLock \ {MainThread}
    /\ mainpc' = "done"
    /\ ret' = IF errors = <<>> THEN "Ok" ELSE "Err"
    /\ UNCHANGED <<rest, output_file, files, worker, result, pending, handles,
                   taskpc, running, errors, bar, barLock, stdout, log>>

\* Ok(()): main returns and the errors guard is dropped (lines 159-162)
Return ==
    /\ mainpc = "report"
    /\ Len(stdout) = Len(errors)
    /\ errorsLock' = errorsLock \ {MainThread}
    /\ mainpc' = "done"
    /\ ret' = "Ok"
    /\ UNCHANGED <<rest, output_file, files, worker, result, pending,
                   handles, taskpc, running, errors, bar, barLock, stdout,
                   log>>

Next ==
    \/ Spawn
    \/ SpawnLoopExit
    \/ \E f \in Tasks : Poll(f)
    \/ \E f \in Tasks : ConvertReturn(f)
    \/ \E f \in Tasks : TaskLockErrors(f)
    \/ \E f \in Tasks : Push(f)
    \/ \E f \in Tasks : TaskLockBar(f)
    \/ \E f \in Tasks : Inc(f)
    \/ Await
    \/ AwaitLoopExit
    \/ MainLockBar
    \/ MainFinish
    \/ MainLockErrors
    \/ Report
    \/ Return

Spec == Init /\ [][Next]_vars

\* ---- runs in which a task body panics -----------------------------------
\* The mutexes a thread holds.
Held(t) == {m \in {"errors", "bar"} :
              \/ m = "errors" /\ t \in errorsLock
              \/ m = "bar" /\ t \in barLock}

\* The points at which a body can panic by itself: in convert_to_parquet
\* (line 131), and between lock and push while it holds the errors guard
\* (lines 133-136: the unwrap of line 134, err.to_string()).
PanicPoints == {"convert", "push"}

\* The body of task f panics at the point panics[f].  Unwinding drops the
\* guard the body holds, which poisons its mutex; the runtime catches the
\* panic and the worker thread goes on.
PanicInBody(f) ==
    /\ taskpc[f] \in PanicPoints
    /\ panics[f] = taskpc[f]
    /\ poisoned' = poisoned \cup Held(f)
    /\ errorsLock' = errorsLock \ {f}
    /\ barLock' = barLock \ {f}
    /\ taskpc' = [taskpc EXCEPT ![f] = "panicked"]
    /\ running' = Release(running, f)
    /\ log' = [log EXCEPT ![f] = Append(@, "panic")]
    /\ UNCHANGED <<cfgVars, delimiter, pipe, output_file, ret, files, worker,
                   result, pending, handles, mainpc, errors, bar, stdout>>

\* lock() on a poisoned mutex returns Err once the mutex is free, and
\* unwrap() panics (lines 132 and 138).
PanicOnPoison(f) ==
    /\ \/ taskpc[f] = "lock_errors" /\ CanLock(errorsLock)
          /\ "errors" \in poisoned
       \/ taskpc[f] = "lock_bar" /\ CanLock(barLock) /\ "bar" \in poisoned
    /\ taskpc' = [taskpc EXCEPT ![f] = "panicked"]
    /\ running' = Release(running, f)
    /\ log' = [log EXCEPT ![f] = Append(@, "panic")]
    /\ UNCHANGED <<rest, output_file, ret, files, worker, result, pending,
                   handles, mainpc, errors, errorsLock, bar, barLock, stdout>>

\* The same in main (lines 149 and 151): the process ends with a panic.
MainPanicOnPoison ==
    /\ \/ mainpc = "lock_bar" /\ CanLock(barLock) /\ "bar" \in poisoned
       \/ mainpc = "lock_errors" /\ CanLock(errorsLock)
          /\ "errors" \in poisoned
    /\ mainpc' = "panicked"
    /\ UNCHANGED <<rest, output_file, ret, files, worker, result, pending,
                   handles, taskpc, running, errors, errorsLock, bar, barLock,
                   stdout, log>>

\* A run in which at most one task body panics by itself, at any point.
PanicInit ==
    /\ \E k \in 0..MaxFiles : files = Discovered(k)
    /\ worker \in 1..MaxWorker
    /\ result \in [1..Len(files) -> {"Ok", "IoError"}]
    /\ panics \in [1..Len(files) -> {"none"} \cup PanicPoints]
    /\ Cardinality({f \in 1..Len(files) : panics[f] # "none"}) <= 1
    /\ \A f \in 1..Len(files) : panics[f] = "push" => result[f] # "Ok"
    /\ pending = files
    /\ handles = <<>>
    /\ mainpc = "spawn_loop"
    /\ taskpc = [f \in 1..Len(files) |-> "unspawned"]
    /\ running = {}
    /\ errors = <<>>
    /\ errorsLock = {}
    /\ bar = [pos |-> 0, len |-> Len(files), finished |-> FALSE]
    /\ barLock = {}
    /\ stdout = <<>>
    /\ log = [f \in 1..Len(files) |-> <<>>]
    /\ arg = <<",">>
    /\ delimiter = Ok(",")
    /\ output_dir = {}
    /\ output_file = [f \in 1..Len(files) |-> {}]
    /\ poisoned = {}
    /\ ret = "none"
    /\ pipe = PipeIdle

PanicNext ==
    \/ Next
    \/ \E f \in Tasks : PanicInBody(f)
    \/ \E f \in Tasks : PanicOnPoison(f)
    \/ MainPanicOnPoison

PanicSpec == PanicInit /\ [][PanicNext]_vars

\* ---- runs with an output directory ---------------------------------------
\* Paths a pattern can match: the same file name in two directories, the same
\* stem with two extensions, and another stem.
InputPaths ==
    {Path(d, 1, e) : d \in {"a", "b"}, e \in {"csv", "txt"}}
        \cup {Path("a", 2, "csv")}

\* find_files returns each matching path once.
DistinctPaths(k) ==
    {fs \in [1..k -> InputPaths] : \A i, j \in 1..k : i # j => fs[i] # fs[j]}

OutInit ==
    /\ \E k \in 0..MaxOutFiles : files \in DistinctPaths(k)
    /\ worker \in 1..MaxWorker
    /\ result \in [1..Len(files) -> {"Ok", "IoError"}]
    /\ output_dir \in {{}, {"out"}}
    /\ pending = files
    /\ handles = <<>>
    /\ mainpc = "spawn_loop"
    /\ taskpc = [f \in 1..Len(files) |-> "unspawned"]
    /\ running = {}
    /\ errors = <<>>
    /\ errorsLock = {}
    /\ bar = [pos |-> 0, len |-> Len(files), finished |-> FALSE]
    /\ barLock = {}
    /\ stdout = <<>>
    /\ log = [f \in 1..Len(files) |-> <<>>]
    /\ arg = <<",">>
    /\ delimiter = Ok(",")
    /\ output_file = [f \in 1..Len(files) |-> {}]
    /\ panics = [f \in 1..Len(files) |-> "none"]
    /\ poisoned = {}
    /\ ret = "none"
    /\ pipe = PipeIdle

OutSpec == OutInit /\ [][Next]_vars

\* ---- one call of convert_to_parquet (line 131) ---------------------------
\* The function is in the cc2p library; its stages are those of the File
\* Conversion Pipeline: sample and infer, finalize the schema, convert the
\* rows in row groups, close.  pipe is the state of one call:
\*   rows, ncols, S, G, io  the file's data rows (a row is its ncols cells),
\*                          the sample size, the row-group size, and the
\*                          stage in which a read fails, if any
\*   pc, next               the stage, and the next row it reads
\*   cand                   the ColumnCandidates
\*   finalized, schema      the Schema, once finalized
\*   batch, groups, closed  the RowBatch, the row groups written, the footer
\*   result                 "none", "Ok" or the error returned
\*   trace                  the stages executed, one entry per row or flush

\* Texts of cells: an integer, a float, a boolean, a string, an empty cell.
IntText == {"1"}
FloatText == {"2.5"}
BoolText == {"true"}
Cells == IntText \cup FloatText \cup BoolText \cup {"x", ""}

\* Whether a non-empty cell parses as a type.
ParsesAs(cell, type) ==
    CASE type = "Integer" -> cell \in IntText
      [] type = "Float" -> cell \in IntText \cup FloatText
      [] type = "Boolean" -> cell \in BoolText
      [] OTHER -> TRUE

\* Integer parse, else float parse, else boolean parse, else string.
Classify(cell) ==
    IF ParsesAs(cell, "Integer") THEN "Integer"
    ELSE IF ParsesAs(cell, "Float") THEN "Float"
    ELSE IF ParsesAs(cell, "Boolean") THEN "Boolean"
    ELSE "String"

\* Least upper bound in the lattice Integer < Float < String, Boolean <
\* String; "None" is no evidence yet.
widen(a, b) ==
    IF a = "None" THEN b
    ELSE IF b = "None" THEN a
    ELSE IF a = b THEN a
    ELSE IF {a, b} = {"Integer", "Float"} THEN "Float"
    ELSE "String"

\* One sampled cell folded into its column's candidate.
Observe(c, cell) ==
    IF cell = "" THEN [c EXCEPT !.seen_null = TRUE]
    ELSE [c EXCEPT !.widest_type = widen(@, Classify(cell))]

\* A candidate becomes a ColumnDef; a column without evidence falls back
\* to String.
ColumnDef(c) ==
    [name |-> c.name,
     type |-> IF c.widest_type = "None" THEN "String" ELSE c.widest_type,
     nullable |-> c.seen_null]

\* A cell coerced to its column's type: null for an empty cell.
Coerce(cell, type) ==
    IF cell = "" THEN [type |-> "Null", text |-> ""]
    ELSE [type |-> type, text |-> cell]

Coercible(row, schema) ==
    \A i \in DOMAIN row : row[i] = "" \/ ParsesAs(row[i], schema[i].type)

CoerceRow(row, schema) == [i \in DOMAIN row |-> Coerce(row[i], schema[i].type)]

\* The call returns an error: nothing more is written, the file is not closed.
Fail(q, e) == [q EXCEPT !.pc = "returned", !.result = e]

\* Mutant: the flushed rows stay in the buffer.
FlushBatch_NoClear(q) ==
    [q EXCEPT !.groups = Append(@, q.batch), !.trace = Append(@, "flush")]

\* The RowBatch is written as a row group and the buffer is cleared.
FlushBatch(q) ==
    [q EXCEPT !.groups = Append(@, q.batch), !.batch = <<>>,
              !.trace = Append(@, "flush")]

\* Mutant: a cell that does not parse widens its column to String.
OnCoercionFailure_Widen(q) ==
    LET wide == [i \in DOMAIN q.schema |-> [q.schema[i] EXCEPT !.type = "String"]]
    IN [q EXCEPT !.schema = wide,
                 !.batch = Append(@, CoerceRow(q.rows[q.next], wide)),
                 !.next = @ + 1,
                 !.trace = Append(@, "coerce")]

\* A cell that does not parse as its column's type fails the file.
OnCoercionFailure(q) == Fail(q, "TypeCoercionError")

\* Rows read by the sampling pass.
SampleCount(q) == IF q.S < Len(q.rows) THEN q.S ELSE Len(q.rows)

\* The state of a call when it starts.
PipeStart(rows, ncols, S, G, io) ==
    [pc |-> "sample", rows |-> rows, ncols |-> ncols, S |-> S, G |-> G,
     io |-> io, next |-> 1,
     cand |-> [i \in 1..ncols |->
                 [name |-> <<"column_", i - 1>>, seen_null |-> FALSE,
                  widest_type |-> "None"]],
     finalized |-> FALSE, schema |-> <<>>,
     batch |-> <<>>, groups |-> <<>>, closed |-> FALSE,
     result |-> "none", trace |-> <<>>]

harnessVars ==
    <<files, worker, result, pending, handles, mainpc, taskpc, running,
      errors, errorsLock, bar, barLock, stdout, log, output_file, ret,
      cfgVars, delimiter, poisoned>>

\* Sampling: a read failure, one row, or the end of the sample.
SampleStep ==
    /\ pipe.pc = "sample"
    /\ pipe' =
         IF pipe.io = "sample" THEN Fail(pipe, "IoError")
         ELSE IF pipe.next <= SampleCount(pipe)
         THEN [pipe EXCEPT
                 !.cand = [i \in DOMAIN @ |->
                             Observe(@[i], pipe.rows[pipe.next][i])],
                 !.next = @ + 1,
                 !.trace = Append(@, "sample")]
         ELSE IF Len(pipe.rows) = 0 THEN Fail(pipe, "EmptyFileError")
         ELSE [pipe EXCEPT !.pc = "finalize"]
    /\ UNCHANGED harnessVars

\* Finalization: the candidates become the Schema; the row source is
\* rewound to the first data row.
FinalizeStep ==
    /\ pipe.pc = "finalize"
    /\ pipe' =
         IF pipe.ncols = 0 THEN Fail(pipe, "EmptySchemaError")
         ELSE [pipe EXCEPT
                 !.schema = [i \in DOMAIN pipe.cand |-> ColumnDef(pipe.cand[i])],
                 !.finalized = TRUE,
                 !.pc = "convert",
                 !.next = 1,
                 !.trace = Append(@, "finalize")]
    /\ UNCHANGED harnessVars

\* Conversion of one row into the RowBatch.
ConvertStep ==
    /\ pipe.pc = "convert"
    /\ pipe.next <= Len(pipe.rows)
    /\ Len(pipe.batch) < pipe.G
    /\ pipe' =
         IF pipe.io = "convert" THEN Fail(pipe, "IoError")
         ELSE IF ~Coercible(pipe.rows[pipe.next], pipe.schema)
         THEN OnCoercionFailure(pipe)
         ELSE [pipe EXCEPT
                 !.batch = Append(@, CoerceRow(pipe.rows[pipe.next], pipe.schema)),
                 !.next = @ + 1,
                 !.trace = Append(@, "coerce")]
    /\ UNCHANGED harnessVars

\* The RowBatch has reached the row-group size.
FlushStep ==
    /\ pipe.pc = "convert"
    /\ Len(pipe.batch) = pipe.G
    /\ pipe' = FlushBatch(pipe)
    /\ UNCHANGED harnessVars

\* End of input: a partial RowBatch is flushed, then the writer closes.
EndOfInput ==
    /\ pipe.pc = "convert"
    /\ pipe.next > Len(pipe.rows)
    /\ Len(pipe.batch) < pipe.G
    /\ pipe' = [(IF pipe.batch # <<>> THEN FlushBatch(pipe) ELSE pipe)
                  EXCEPT !.pc = "close"]
    /\ UNCHANGED harnessVars

CloseStep ==
    /\ pipe.pc = "close"
    /\ pipe' = [pipe EXCEPT !.closed = TRUE, !.pc = "returned",
                            !.result = "Ok", !.trace = Append(@, "close")]
    /\ UNCHANGED harnessVars

PipeNext ==
    \/ SampleStep
    \/ FinalizeStep
    \/ ConvertStep
    \/ FlushStep
    \/ EndOfInput
    \/ CloseStep

\* The files of up to MaxRows rows of no or one column.
Files(n) == UNION {[1..r -> [1..c -> Cells]] : r \in 0..n, c \in 0..1}

PipeInit ==
    /\ \E rows \in Files(MaxRows), c \in 0..1, S \in 1..MaxSample,
          G \in 1..MaxGroup, io \in {"none", "sample", "convert"} :
         /\ \A i \in DOMAIN rows : Len(rows[i]) = c
         /\ pipe = PipeStart(rows, c, S, G, io)
    /\ files = Discovered(1)
    /\ worker = 1
    /\ result = <<"Ok">>
    /\ pending = <<>>
    /\ handles = <<1>>
    /\ mainpc = "await_loop"
    /\ taskpc = <<"convert">>
    /\ running = {1}
    /\ errors = <<>>
    /\ errorsLock = {}
    /\ bar = [pos |-> 0, len |-> 1, finished |-> FALSE]
    /\ barLock = {}
    /\ stdout = <<>>
    /\ log = << <<>> >>
    /\ arg = <<",">>
    /\ delimiter = Ok(",")
    /\ output_dir = {}
    /\ output_file = << {} >>
    /\ panics = <<"none">>
    /\ poisoned = {}
    /\ ret = "none"

PipeSpec == PipeInit /\ [][PipeNext]_vars

\* ---- main from its first line --------------------------------------------
\* The characters args.delimiter is made of.
DelimChars == {"\\", "t", "n", "r", ",", ";", "a", "\t"}

Strings(n) == UNION {[1..k -> DelimChars] : k \in 0..n}

\* The state in which main starts, for a given args.delimiter.
Start(s) ==
    /\ arg = s
    /\ delimiter = NotParsed
    /\ mainpc = "parse_delimiter"
    /\ files = <<>>
    /\ worker \in 1..MaxWorker
    /\ result = <<>>
    /\ pending = <<>>
    /\ handles = <<>>
    /\ taskpc = <<>>
    /\ running = {}
    /\ errors = <<>>
    /\ errorsLock = {}
    /\ bar = [pos |-> 0, len |-> 0, finished |-> FALSE]
    /\ barLock = {}
    /\ stdout = <<>>
    /\ log = <<>>
    /\ output_dir = {}
    /\ output_file = <<>>
    /\ panics = <<>>
    /\ poisoned = {}
    /\ ret = "none"
    /\ pipe = PipeIdle

\* parse_delimiter on every string of up to MaxDelimLen characters.
DelimInit == \E s \in Strings(MaxDelimLen) : Start(s)

DelimSpec == DelimInit /\ [][ParseDelimiter]_vars

\* A whole run of main, for a good and for two bad delimiters.
FullInit == \E s \in {<<",">>, <<"a", "b">>, <<>>} : Start(s)

FullNext ==
    \/ ParseDelimiter
    \/ FindFiles
    \/ FindFilesErr
    \/ BuildRuntime
    \/ BuildRuntimeErr
    \/ Next

FullSpec == FullInit /\ [][FullNext]_vars

\* One step of main, and one step of the body of task f on its worker thread.
MainStep ==
    \/ Spawn \/ SpawnLoopExit \/ Await \/ AwaitLoopExit
    \/ MainLockBar \/ MainFinish \/ MainLockErrors \/ Report \/ Return

TaskStep(f) ==
    /\ f \in Tasks
    /\ \/ ConvertReturn(f) \/ TaskLockErrors(f) \/ Push(f)
       \/ TaskLockBar(f) \/ Inc(f)

\* The threads are scheduled fairly: the main thread keeps running, an idle
\* worker thread picks up a spawned task, and a worker thread polling a task
\* keeps executing its body.  Every call of convert_to_parquet returns.
Fairness ==
    /\ WF_vars(MainStep)
    /\ WF_vars(\E f \in Tasks : Poll(f))
    /\ \A f \in 1..MaxFiles : WF_vars(TaskStep(f))

\* Termination does not depend on the text of an error, so the fair
\* specification draws the outcomes from Ok and one error.
LiveInit == Init /\ \A f \in Tasks : result[f] \in {"Ok", "IoError"}

LiveSpec == LiveInit /\ [][Next]_vars /\ Fairness

TypeOK ==
    /\ mainpc \in {"parse_delimiter", "find_files", "build_runtime",
                   "spawn_loop", "await_loop", "lock_bar", "finish",
                   "lock_errors", "report", "done", "panicked"}
    /\ ret \in {"none", "Ok", "Err"}
    /\ \A f \in Tasks : taskpc[f] \in {"unspawned", "spawned", "convert",
                          "lock_errors", "push", "lock_bar", "inc", "done",
                          "panicked"}
    /\ running \subseteq Tasks /\ Cardinality(running) <= worker
    /\ bar.pos \in Nat

\* ---- helpers of the properties -------------------------------------------
IsPrefix(s, t) == Len(s) <= Len(t) /\ \A i \in 1..Len(s) : s[i] = t[i]

Records(list) == {list[i] : i \in DOMAIN list}

\* The steps a task body executes, by the outcome of its conversion.
ExpectedLog(f) ==
    IF result[f] = "Ok" THEN <<"convert", "inc">>
                        ELSE <<"convert", "push", "inc">>

Occurrences(s, x) == Cardinality({i \in DOMAIN s : s[i] = x})

\* main has left the wait-for-all loop.
PastAwait == mainpc \in {"lock_bar", "finish", "lock_errors", "report", "done"}

Converting == {f \in Tasks : taskpc[f] = "convert"}

\* ---- the properties ------------------------------------------------------

\* C1 (failure isolation): whatever subset of the conversions fails, every
\* task that has ended has executed exactly the steps of its own body - its
\* conversion, the push of its record when it failed, and its progress
\* increment - and when main returns this is so for every task: no task is
\* aborted or skipped because a sibling failed.
C1_FailureIsolation ==
    /\ \A f \in Tasks : taskpc[f] = "done" => log[f] = ExpectedLog(f)
    /\ mainpc = "done" => \A f \in Tasks : log[f] = ExpectedLog(f)

\* C1 witness: a finished run in which some task failed and a sibling did not.
C1_Witness ==
    /\ mainpc = "done"
    /\ Failed # {} /\ Failed # Tasks
    /\ \A f \in Tasks : log[f] = ExpectedLog(f)

\* C2 (errors one-to-one with failed tasks): once main has finished waiting,
\* the error list holds exactly one record for every task whose conversion
\* returned an error, with that task's path and message, and none for a task
\* whose conversion returned Ok; the list is empty iff every task succeeded.
C2_ErrorsOneToOne ==
    PastAwait =>
        /\ \A f \in Failed : Occurrences(errors, ErrorData(f)) = 1
        /\ Len(errors) = Cardinality(Failed)
        /\ \A f \in Tasks \ Failed :
              \A i \in DOMAIN errors : errors[i].file_path # files[f]
        /\ (errors = <<>>) <=> (Failed = {})

\* C2 witness: main is past the wait with two records and one successful task.
C2_Witness ==
    /\ mainpc = "lock_bar"
    /\ Len(errors) = 2
    /\ Cardinality(Tasks \ Failed) = 1

\* C3 (final progress): when main returns, the position of the progress bar
\* equals the number of tasks, whatever the outcomes.
C3_ProgressFinal == mainpc = "done" => bar.pos = Len(files)

\* C3 witness: main has returned from a run with more tasks than workers,
\* at least one of them failed, and the bar is at the task count.
C3_Witness ==
    /\ mainpc = "done"
    /\ Len(files) > worker
    /\ Failed # {}
    /\ bar.pos = Len(files)

\* C4 (progress counts completed tasks): in every state the bar position is
\* the number of tasks that executed their increment; a task increments at
\* most once and only after its conversion returned; the position never
\* exceeds the total and no step decreases it.
C4_ProgressCounts ==
    /\ [](/\ bar.pos = Cardinality({f \in Tasks : Occurrences(log[f], "inc") = 1})
          /\ \A f \in Tasks :
                /\ Occurrences(log[f], "inc") <= 1
                /\ Occurrences(log[f], "inc") = 1 =>
                      /\ log[f][1] = "convert"
                      /\ log[f][Len(log[f])] = "inc"
          /\ bar.pos <= bar.len)
    /\ [][bar'.pos >= bar.pos]_vars

\* C4 witness: the bar is strictly between 0 and the total while another
\* task is still converting.
C4_Witness ==
    /\ 0 < bar.pos /\ bar.pos < bar.len
    /\ Converting # {}

\* C5 (liveness): under fair scheduling every spawned task eventually ends
\* with its conversion done, its error recorded if any and its increment
\* made, and main eventually leaves the wait loop and returns.
C5_Termination ==
    /\ \A f \in 1..MaxFiles :
          (f \in Tasks /\ taskpc[f] = "spawned")
             ~> (f \in Tasks /\ taskpc[f] = "done" /\ log[f] = ExpectedLog(f))
    /\ <>(mainpc = "done")

\* C5 witness: main has returned from a run with more tasks than workers.
C5_Witness ==
    /\ mainpc = "done"
    /\ Len(files) > worker
    /\ \A f \in Tasks : taskpc[f] = "done"

\* C6 (report after completion): whenever main is past the wait loop -
\* finishing the bar, reading or printing the error list - every task has
\* ended: none is still converting, pushing or incrementing.
C6_ReportAfterAll == PastAwait => \A f \in Tasks : taskpc[f] = "done"

\* C6 witness: main is in the middle of printing the error list.
C6_Witness ==
    /\ mainpc = "report"
    /\ 0 < Len(stdout) /\ Len(stdout) < Len(errors)

\* C7 (bounded parallelism): never more conversions executing than worker
\* threads.
C7_BoundedParallelism == Cardinality(Converting) <= worker

\* C7 witness: every task is spawned, all workers are converting and a task
\* is still waiting for a worker.
C7_Witness ==
    /\ pending = <<>> /\ Len(files) > worker
    /\ Cardinality(Converting) = worker
    /\ \E f \in Tasks : taskpc[f] = "spawned"

\* C8 (mutual exclusion): a thread that is mutating or reading the error
\* list is the only holder of the errors lock, a thread mutating the bar is
\* the only holder of the bar lock, and every step that changes the list or
\* the bar is made by the holder of its lock.
C8_MutualExclusion ==
    /\ [](/\ \A f \in Tasks : taskpc[f] = "push" => errorsLock = {f}
          /\ \A f \in Tasks : taskpc[f] = "inc" => barLock = {f}
          /\ mainpc = "finish" => barLock = {MainThread}
          /\ mainpc = "report" => errorsLock = {MainThread}
          /\ Cardinality({f \in Tasks : taskpc[f] = "push"}) <= 1
          /\ Cardinality({f \in Tasks : taskpc[f] = "inc"}) <= 1)
    /\ [][/\ errors' # errors => Cardinality(errorsLock) = 1
          /\ bar' # bar => Cardinality(barLock) = 1]_vars

\* C8 witness: one task holds the errors lock while another waits for it,
\* and one holds the bar lock while another waits for it.
C8_Witness ==
    \/ \E f, g \in Tasks : taskpc[f] = "push" /\ taskpc[g] = "lock_errors"
                             /\ errorsLock = {f}
    \/ \E f, g \in Tasks : taskpc[f] = "inc" /\ taskpc[g] = "lock_bar"
                             /\ barLock = {f}

\* C9 (append-only): in every step the error list before is a prefix of the
\* error list after.
C9_AppendOnly == [][IsPrefix(errors, errors')]_vars

\* C9 witness: the list holds two records and a third task is about to push.
C9_Witness ==
    /\ Len(errors) = 2
    /\ \E f \in Tasks : taskpc[f] = "push"

\* C10 (tasks commute): the final progress value and the final set of
\* records are determined by the files and their outcomes alone, whatever
\* the schedule: the position is the number of files and the set of records
\* is the set of the failed files' records.
C10_Commute ==
    mainpc = "done" =>
        /\ bar.pos = Cardinality(Tasks)
        /\ Records(errors) = {ErrorData(f) : f \in Failed}

\* C10 witness: a finished run whose records are not in spawn order.
C10_Witness ==
    /\ mainpc = "done"
    /\ Len(errors) >= 2
    /\ errors[1].file_path.stem > errors[2].file_path.stem

\* main is inside the dispatch: the runtime is built and main has not returned.
InDispatch ==
    mainpc \in {"spawn_loop", "await_loop", "lock_bar", "finish", "lock_errors",
                "report"}

\* C11 (empty run): when find_files returns no file, nothing is spawned, the
\* total and the position of the bar are 0, the error list stays empty, and
\* main does not return an error: it runs to its end and returns Ok.
C11_EmptyRun ==
    /\ []((Len(files) = 0 /\ InDispatch) =>
             /\ handles = <<>> /\ running = {}
             /\ bar.len = 0 /\ bar.pos = 0
             /\ errors = <<>>
             /\ ret = "none")
    /\ [][(Len(files) = 0 /\ InDispatch /\ mainpc' = "done") =>
             /\ ret' = "Ok"
             /\ bar'.finished /\ bar'.pos = 0
             /\ errors' = <<>> /\ stdout' = <<>>]_vars

\* C11 witness: main has returned Ok from a run whose discovery found nothing.
C11_Witness ==
    /\ Len(files) = 0 /\ delimiter.ok
    /\ mainpc = "done" /\ ret = "Ok"
    /\ bar.finished /\ bar.len = 0 /\ stdout = <<>>

\* The escape sequences parse_delimiter knows, with the character of each.
Escapes ==
    { <<<<"\\", "t">>, "\t">>, <<<<"\\", "n">>, "\n">>, <<<<"\\", "r">>, "\r">>,
      <<<<"\\", ",">>, ",">>, <<<<"\\", ";">>, ";">> }

\* No task was spawned and the aggregates are untouched.
NothingDispatched ==
    /\ handles = <<>> /\ running = {}
    /\ \A f \in Tasks : taskpc[f] = "unspawned" /\ log[f] = <<>>
    /\ errors = <<>>
    /\ bar.pos = 0

\* C18 (errors before the dispatch): when main has returned an error, no
\* task was spawned, no record appended and no increment made; a delimiter
\* that does not parse makes main return an error; and once main is in the
\* dispatch it returns Ok, whatever conversions failed.
C18_PreDispatchErrors ==
    /\ ret = "Err" => NothingDispatched
    /\ (mainpc # "parse_delimiter" /\ ~delimiter.ok) => ret = "Err"
    /\ (\E f \in Tasks : taskpc[f] # "unspawned") => ret # "Err"
    /\ (mainpc = "done" /\ ret # "Err") => ret = "Ok"

\* C18 witness: main has returned an error for a delimiter of two characters.
C18_Witness ==
    /\ arg = <<"a", "b">>
    /\ mainpc = "done" /\ ret = "Err"
    /\ ~delimiter.ok
    /\ NothingDispatched

\* C19 (parse_delimiter): once parsed, the delimiter is the character of the
\* escape sequence for the five escapes, the character itself for a string of
\* one character, and an error for the empty string and for every other
\* string of two or more characters.
C19_ParseDelimiter ==
    mainpc # "parse_delimiter" =>
        /\ \A e \in Escapes : arg = e[1] => delimiter = Ok(e[2])
        /\ Len(arg) = 1 => delimiter = Ok(arg[1])
        /\ Len(arg) = 0 => ~delimiter.ok
        /\ (Len(arg) >= 2 /\ arg \notin {e[1] : e \in Escapes}) => ~delimiter.ok
        /\ delimiter.ok <=> (Len(arg) = 1 \/ arg \in {e[1] : e \in Escapes})

\* C19 witness: backslash-semicolon was parsed to the semicolon.
C19_Witness ==
    /\ mainpc # "parse_delimiter"
    /\ arg = <<"\\", ";">>
    /\ delimiter = Ok(";")

\* A task is counted once its body has executed the increment.
Counted == {f \in Tasks : Occurrences(log[f], "inc") = 1}

\* C16 (record before increment): every failed task that is counted in the
\* bar already has its record in the error list, so when the bar reads N
\* the list holds the errors of all failures among the N counted tasks.
C16_RecordBeforeCount ==
    /\ bar.pos = Cardinality(Counted)
    /\ \A f \in Counted \cap Failed : Occurrences(errors, ErrorData(f)) = 1

\* C16 witness: a failed task is counted with its record in the list while
\* another failed task has not yet pushed its own.
C16_Witness ==
    \E f, g \in Failed :
        /\ f \in Counted /\ ErrorData(f) \in Records(errors)
        /\ taskpc[g] \in {"convert", "lock_errors", "push"}

\* A task waits for a mutex that another thread holds.
Blocked(f) ==
    \/ taskpc[f] = "lock_errors" /\ errorsLock # {}
    \/ taskpc[f] = "lock_bar" /\ barLock # {}

\* C17 (no deadlock on the two locks): a task holds the errors lock only
\* while it pushes and the bar lock only while it increments, never one
\* while it acquires or holds the other; main holds a lock only when every
\* task has ended; and the tasks being polled are never all blocked.
C17_NoLockDeadlock ==
    /\ \A f \in Tasks :
          /\ f \in errorsLock => taskpc[f] = "push"
          /\ f \in barLock => taskpc[f] = "inc"
          /\ ~(f \in errorsLock /\ f \in barLock)
    /\ MainThread \in (errorsLock \cup barLock) =>
          \A f \in Tasks : taskpc[f] = "done"
    /\ running # {} => \E f \in running : ~Blocked(f)

\* C17 witness: a task that failed has released the errors lock and holds
\* the bar lock, and the other task being polled waits for the bar lock.
C17_Witness ==
    \E f, g \in Tasks :
        /\ running = {f, g} /\ f # g
        /\ f \in Failed /\ taskpc[f] = "inc" /\ errorsLock = {}
        /\ Blocked(g) /\ taskpc[g] = "lock_bar"

\* The tasks whose body does not panic by itself.
Siblings == {f \in Tasks : panics[f] = "none"}

\* C14 (a panic is isolated): when the body of one task panics, at any
\* point, no other task panics: every sibling that has ended has executed
\* its conversion, its push if it failed, and its increment; and main does
\* not panic: it acquires the error list and returns with every sibling's
\* record in it.
C14_PanicIsolation ==
    /\ \A f \in Siblings :
          /\ taskpc[f] # "panicked"
          /\ taskpc[f] = "done" => log[f] = ExpectedLog(f)
    /\ mainpc # "panicked"
    /\ mainpc = "done" =>
          /\ \A f \in Siblings : log[f] = ExpectedLog(f)
          /\ \A f \in Siblings \cap Failed : ErrorData(f) \in Records(errors)

\* The tasks whose convert_to_parquet is writing to the output path p.
Writers(p) == {f \in Converting : p \in output_file[f]}

\* C15 (output files exclusively owned): with an output directory, the
\* output path of a spawned task is the directory joined with the file name
\* of its input with the extension parquet, and no two tasks are ever
\* writing the same output file.
C15_ExclusiveOutput ==
    /\ \A f \in Tasks :
          (taskpc[f] # "unspawned" /\ output_dir # {}) =>
              output_file[f] =
                  {Path(d, files[f].stem, "parquet") : d \in output_dir}
    /\ \A f \in Tasks : \A p \in output_file[f] : Cardinality(Writers(p)) <= 1

\* ---- properties of one call of convert_to_parquet ------------------------
RECURSIVE Flatten(_)
Flatten(gs) == IF gs = <<>> THEN <<>> ELSE Head(gs) \o Flatten(Tail(gs))

RECURSIVE InferColumn(_, _, _)
\* The widest type of column i over the rows, starting from acc.
InferColumn(rows, i, acc) ==
    IF rows = <<>> THEN acc
    ELSE InferColumn(Tail(rows), i,
                     IF Head(rows)[i] = "" THEN acc
                     ELSE widen(acc, Classify(Head(rows)[i])))

\* The type each column has after sampling the first SampleCount rows.
SampledType(q, i) ==
    LET t == InferColumn(SubSeq(q.rows, 1, SampleCount(q)), i, "None")
    IN IF t = "None" THEN "String" ELSE t

\* What the call returns: the error of the first stage that fails, else Ok.
FirstOutcome(q) ==
    IF q.io = "sample" THEN "IoError"
    ELSE IF Len(q.rows) = 0 THEN "EmptyFileError"
    ELSE IF q.ncols = 0 THEN "EmptySchemaError"
    ELSE IF q.io = "convert" THEN "IoError"
    ELSE IF \E r \in DOMAIN q.rows : \E i \in 1..q.ncols :
               /\ q.rows[r][i] # ""
               /\ ~ParsesAs(q.rows[r][i], SampledType(q, i))
    THEN "TypeCoercionError"
    ELSE "Ok"

Stages(q, x) == {i \in DOMAIN q.trace : q.trace[i] = x}

\* C12 (stages in order): the sampling pass is complete when the schema is
\* finalized; no row is coerced or flushed before the schema is finalized;
\* once finalized the schema never changes; and a call that fails returns
\* the error of the first stage that fails, the later stages not having run.
C12_StagesInOrder ==
    /\ [](/\ ~pipe.finalized =>
                /\ pipe.schema = <<>>
                /\ Stages(pipe, "coerce") \cup Stages(pipe, "flush") = {}
          /\ pipe.finalized =>
                /\ Stages(pipe, "sample") = 1..SampleCount(pipe)
                /\ Stages(pipe, "finalize") = {SampleCount(pipe) + 1}
                /\ \A i \in 1..pipe.ncols :
                      pipe.schema[i].type = SampledType(pipe, i)
          /\ pipe.pc = "returned" =>
                /\ pipe.result = FirstOutcome(pipe)
                /\ pipe.result \in {"EmptyFileError", "EmptySchemaError"} =>
                      ~pipe.finalized
                /\ (pipe.result = "IoError" /\ pipe.io = "sample") =>
                      pipe.trace = <<>>
                /\ pipe.result # "Ok" =>
                      ~pipe.closed /\ Stages(pipe, "close") = {})
    /\ [][pipe.finalized =>
             pipe'.finalized /\ pipe'.schema = pipe.schema]_vars

\* C12 witness: a row after the sample does not parse as the finalized type;
\* the call has returned the coercion error after writing a row group.
C12_Witness ==
    /\ pipe.pc = "returned"
    /\ pipe.result = "TypeCoercionError"
    /\ pipe.finalized /\ pipe.schema[1].type = "Integer"
    /\ Len(pipe.groups) >= 1

\* The rows converted so far, in input order.
Converted(q) == [r \in 1..(q.next - 1) |-> CoerceRow(q.rows[r], q.schema)]

\* C13 (row-count preservation): during the conversion the rows written in
\* row groups followed by the rows in the buffer are the rows read so far,
\* in input order, none twice and none dropped; a row group holds between 1
\* and the row-group size rows; and a call that returns Ok has closed the
\* writer with an empty buffer and row groups that hold exactly the R rows
\* of the file.
C13_RowCountPreserved ==
    /\ pipe.pc \in {"convert", "close"} =>
          Flatten(pipe.groups) \o pipe.batch = Converted(pipe)
    /\ \A g \in DOMAIN pipe.groups :
          1 <= Len(pipe.groups[g]) /\ Len(pipe.groups[g]) <= pipe.G
    /\ (pipe.pc = "returned" /\ pipe.result = "Ok") =>
          /\ pipe.closed /\ pipe.batch = <<>>
          /\ Len(Flatten(pipe.groups)) = Len(pipe.rows)
          /\ Flatten(pipe.groups) =
                [r \in 1..Len(pipe.rows) |-> CoerceRow(pipe.rows[r], pipe.schema)]

\* C13 witness: three rows were written as a full row group of two and a
\* partial one, and the call returned Ok.
C13_Witness ==
    /\ pipe.pc = "returned" /\ pipe.result = "Ok"
    /\ Len(pipe.rows) = 3 /\ pipe.G = 2
    /\ Len(pipe.groups) = 2 /\ Len(pipe.groups[2]) = 1
====
